---- MODULE Spec2Model ----
(***************************************************************************)
(* Gmail-inbox-Rag: the Streamlit session (app.py), the mail fetch and the *)
(* scheduled tick (data/email_fetcher.py), the ChromaDB ingestion          *)
(* (data/vectordb.py) and the question path (rag/qa_engine.py).            *)
(*                                                                         *)
(* Strings are sequences of one-character strings, so that concatenation   *)
(* and the slices s[:100], s[:200] are computed, not assumed.  Python's    *)
(* None is the empty tuple where a value may be absent (Some(x) == <<x>>). *)
(***************************************************************************)
EXTENDS Integers, Sequences, FiniteSets, TLC

\* ---------------------------------------------------------------- bounds
\* Messages the mailbox can ever hold; message i is the i-th to arrive.
NumIds == 3
\* batch_size is 32 in vectordb.py:62 and :121.  It is scaled down so that an
\* ingestion run of NumIds records has more than one chunk.
batch_size == 2
\* Clock ticks per calendar day: the Gmail query "after:Y/m/d" only sees days.
TicksPerDay == 2
\* Length of the long subject line, longer than both slices taken of it.
LongLen == 201
\* scheduler_thread loops started and not yet ended are counted up to MaxThreads:
\* auto-refresh is not enabled again while that many are live.
MaxThreads == 2
\* Constructions of the embedding model are counted up to MaxModels.
MaxModels == 2

\* ------------------------------------------------------ program constants
n_results == 8
SubjectChars == 100
FromChars == 100
ExcerptChars == 200
\* pandas NaT / Python None for a message whose Date header did not parse.
NaT == 0

Ids == 1..NumIds
None == <<>>
Some(x) == <<x>>

\* ---------------------------------------------------------------- strings
Take(s, n) == SubSeq(s, 1, IF Len(s) < n THEN Len(s) ELSE n)
Ellipsis == <<".", ".", ".">>
SubjectPrefix == <<"S", "u", "b", "j", "e", "c", "t", ":", " ">>
BodyPrefix == <<"\n", "\n", "B", "o", "d", "y", ":", " ">>

Max(a, b) == IF a < b THEN b ELSE a

\* ------------------------------------------------- the mail provider (Gmail)
\* The mailbox holds messages 1..n, message i having arrived at time i.  A
\* message is "plain", with a short subject and a Date header equal to its
\* arrival time, until the provider shows it with other content ("edited"): a
\* long subject, another body and a Date header that does not parse.  At most
\* one message of the mailbox is edited.
Variant(id, edited) == IF id = edited THEN "edited" ELSE "plain"

LongSubject == [i \in 1..LongLen |-> "x"]

\* email_data of get_emails for message `id` seen as variant `v`.
EmailData(id, v) ==
    [id      |-> id,
     subject |-> IF v = "plain" THEN <<"H", "i">> ELSE LongSubject,
     from    |-> <<"a", "@", "b">>,
     date    |-> IF v = "plain" THEN id ELSE NaT,
     body    |-> IF v = "plain" THEN <<"v", "1">> ELSE <<"v", "2">>]

Day(t) == t \div TicksPerDay

\* The message ids the query of get_emails matches, newest first, in a mailbox
\* holding messages 1..n.  No after_date: q = "" matches everything.  With
\* after_date = t: q = "after:Y/m/d" of t, which Gmail answers with the messages
\* received on that day or later.
RECURSIVE Matching(_, _)
Matching(n, after_date) ==
    IF n = 0 THEN <<>>
    ELSE IF after_date = None \/ Day(n) >= Day(after_date[1])
         THEN <<n>> \o Matching(n - 1, after_date)
         ELSE Matching(n - 1, after_date)

\* The list get_emails returns: one email_data per matching message.
GetEmails(n, edited, after_date) ==
    LET ids == Matching(n, after_date)
    IN  [i \in 1..Len(ids) |-> EmailData(ids[i], Variant(ids[i], edited))]

\* ------------------------------------------------------- pandas on the corpus
IdsOf(rows) == { rows[i].id : i \in 1..Len(rows) }

\* (Mutant: keep='first'.)
RECURSIVE DropDuplicatesKeepFirst(_)
DropDuplicatesKeepFirst(rows) ==
    IF rows = <<>> THEN <<>>
    ELSE LET front == SubSeq(rows, 1, Len(rows) - 1)
             last  == rows[Len(rows)]
         IN  IF last.id \in { front[i].id : i \in 1..Len(front) }
             THEN DropDuplicatesKeepFirst(front)
             ELSE DropDuplicatesKeepFirst(front) \o <<last>>

\* df.drop_duplicates(subset=['id'], keep='last').reset_index(drop=True)
RECURSIVE DropDuplicatesKeepLast(_)
DropDuplicatesKeepLast(rows) ==
    IF rows = <<>> THEN <<>>
    ELSE IF rows[1].id \in IdsOf(Tail(rows))
         THEN DropDuplicatesKeepLast(Tail(rows))
         ELSE <<rows[1]>> \o DropDuplicatesKeepLast(Tail(rows))

\* pd.concat([emails_df, new_emails_df]) followed by the drop_duplicates above.
MergeCorpus(emails_df, new_emails_df) ==
    DropDuplicatesKeepLast(emails_df \o new_emails_df)

\* (Mutant: .min() in place of .max().)
RECURSIVE MinDate(_)
MinDate(rows) ==
    IF rows = <<>> THEN NaT
    ELSE LET rest == MinDate(Tail(rows))
         IN  IF rows[1].date = NaT THEN rest
             ELSE IF rest = NaT \/ rows[1].date < rest THEN rows[1].date ELSE rest

\* pd.to_datetime(df['date'], errors='coerce').max(): NaT entries are skipped,
\* and the maximum of nothing is NaT.
RECURSIVE MaxDate(_)
MaxDate(rows) ==
    IF rows = <<>> THEN NaT
    ELSE LET rest == MaxDate(Tail(rows))
         IN  IF rows[1].date = NaT THEN rest ELSE Max(rows[1].date, rest)

\* "if pd.notna(max_date): last_email_date = max_date"
AdvanceCursor(last_email_date, rows) ==
    IF MaxDate(rows) # NaT THEN Some(MaxDate(rows)) ELSE last_email_date

\* ------------------------------------------------ ChromaDB: the collection
\* The collection "email_collection" of the client is None while it does not
\* exist and Some(entries) once created; entries is the sequence of stored
\* {id, document, metadata} in insertion order.  An entry's embedding is
\* embed_model.encode(document), a function of the document, and is not stored
\* apart from it.

\* str(row['date']) if pd.notna(row['date']) else ''
DateStr(date) == IF date = NaT THEN <<>> ELSE <<date>>

\* The loop "for _, row in emails_df.iterrows()" of create_vector_database and
\* update_vector_database: full_text and metadata of every row, with its id.
BuildDocuments(rows) ==
    [i \in 1..Len(rows) |->
        [id       |-> rows[i].id,
         document |-> SubjectPrefix \o rows[i].subject \o BodyPrefix \o rows[i].body,
         metadata |-> [subject |-> Take(rows[i].subject, SubjectChars),
                       from    |-> Take(rows[i].from, FromChars),
                       date    |-> DateStr(rows[i].date)]]]

\* total_batches = (len(documents) + batch_size - 1) // batch_size
TotalBatches(docs) == (Len(docs) + batch_size - 1) \div batch_size

\* documents[i:i+batch_size] for the k-th value i of range(0, len, batch_size)
Batch(docs, k) ==
    SubSeq(docs, (k - 1) * batch_size + 1,
           IF k * batch_size < Len(docs) THEN k * batch_size ELSE Len(docs))

\* collection.add(ids, embeddings, documents, metadatas) of the ChromaDB the
\* code uses (chromadb.PersistentClient, 0.4 and later): a record whose id is
\* already stored is ignored, without an error; the others are appended.
\* (Mutant: an add that stores every record it is given.)
CollectionAddAppendsAll(entries, batch) == entries \o batch

RECURSIVE CollectionAdd(_, _)
CollectionAdd(entries, batch) ==
    IF batch = <<>> THEN entries
    ELSE IF batch[1].id \in IdsOf(entries)
         THEN CollectionAdd(entries, Tail(batch))
         ELSE CollectionAdd(Append(entries, batch[1]), Tail(batch))

\* What an ingestion run can meet: nothing, a storage error in
\* create_collection, or an error of embed_model.encode / collection.add in
\* chunk k.
NoFault == <<"none", 0>>
CreateFault == <<"create_collection", 0>>
ChunkFault(k) == <<"chunk", k>>
ChunkFaults(rows) == { ChunkFault(k) : k \in 1..TotalBatches(rows) }

\* The loop "for i in range(0, len(documents), batch_size)" from chunk k on:
\* the entries it leaves and whether it was left by an exception.
RECURSIVE BatchLoop(_, _, _, _)
BatchLoop(entries, docs, k, fault) ==
    IF k > TotalBatches(docs) THEN [entries |-> entries, raised |-> FALSE]
    ELSE IF fault = ChunkFault(k) THEN [entries |-> entries, raised |-> TRUE]
    ELSE BatchLoop(CollectionAdd(entries, Batch(docs, k)), docs, k + 1, fault)

\* create_vector_database(emails_df, client): the collection it leaves and how
\* the call ends: it returns True or False, or an exception leaves it.
\* (Mutant: only the first batch is embedded and added.)
CreateVectorDatabaseFirstBatch(rows, fault) ==
    IF fault = CreateFault
    THEN [collection |-> None, outcome |-> "False"]
    ELSE [collection |-> Some(Batch(BuildDocuments(rows), 1)), outcome |-> "True"]

CreateVectorDatabase(rows, fault) ==
    IF fault = CreateFault
    THEN \* delete_collection went through, create_collection raised
         [collection |-> None, outcome |-> "False"]
    ELSE LET run == BatchLoop(<<>>, BuildDocuments(rows), 1, fault)
         IN  [collection |-> Some(run.entries),
              outcome    |-> IF run.raised THEN "raised" ELSE "True"]

\* update_vector_database(new_emails_df, client)
UpdateVectorDatabase(coll, rows, fault) ==
    IF Len(rows) = 0 THEN [collection |-> coll, outcome |-> "False"]
    ELSE IF coll = None
         THEN \* client.get_collection raises inside the try
              [collection |-> coll, outcome |-> "False"]
         ELSE LET run == BatchLoop(coll[1], BuildDocuments(rows), 1, fault)
              IN  [collection |-> Some(run.entries),
                   outcome    |-> IF run.raised THEN "False" ELSE "True"]

\* ------------------------------------------------------- the question path
\* What the POST to the Groq endpoint can end in: a 200 with the completion, a
\* non-200 status, requests.post raising, or a 200 whose body does not hold
\* choices[0].message.content.
\* What the progress bar is told during the batch loop of
\* create_vector_database: progress_bar.progress(batch_num / total_batches) at
\* the head of iteration batch_num, before that batch is embedded and added;
\* committed is the number of batches in the collection at that moment.
RECURSIVE ProgressLoop(_, _, _)
ProgressLoop(docs, k, fault) ==
    IF k > TotalBatches(docs) THEN <<>>
    ELSE <<[batch_num |-> k, total_batches |-> TotalBatches(docs), committed |-> k - 1]>>
         \o (IF fault = ChunkFault(k) THEN <<>> ELSE ProgressLoop(docs, k + 1, fault))

\* create_vector_database reports 0 before the loop and then once per
\* iteration; update_vector_database has no progress bar and reports nothing.
Progress(fn, rows, fault) ==
    IF fn = "create" /\ fault # CreateFault
    THEN <<[batch_num |-> 0, total_batches |-> TotalBatches(BuildDocuments(rows)),
            committed |-> 0]>>
         \o ProgressLoop(BuildDocuments(rows), 1, fault)
    ELSE <<>>

LlmOutcomes == {"ok", "non200", "network_error", "malformed"}

\* The embedding model and the cosine ranking are ChromaDB's and the sentence
\* transformer's.  Two questions stand for all: the stored documents are the
\* nearer to "oldest" the earlier they were stored, and the nearer to "newest"
\* the later.
Questions == {"oldest", "newest"}

Reverse(seq) == [i \in 1..Len(seq) |-> seq[Len(seq) + 1 - i]]

\* collection.query(query_embeddings=[question_embedding], n_results=8):
\* the documents and metadatas in ranking order, at most n_results of them.
Query(entries, question) ==
    Take(IF question = "oldest" THEN entries ELSE Reverse(entries), n_results)

\* The list comprehension of the return statement.
Sources(relevant) ==
    [i \in 1..Len(relevant) |->
        [metadata |-> relevant[i].metadata,
         excerpt  |-> Take(relevant[i].document, ExcerptChars) \o Ellipsis]]

\* ask_question_with_groq(question, client).  outcome is "returned" with the
\* dict it returns, or "raised" with the exception that leaves it; encoded and
\* posted say whether the question was embedded and the LLM request was sent.
AskQuestionWithGroq(coll, question, llm) ==
    IF coll = None
    THEN \* client.get_collection raises
         [outcome |-> "raised", error |-> "get_collection",
          answer |-> None, sources |-> <<>>, encoded |-> FALSE, posted |-> FALSE]
    ELSE LET relevant == Query(coll[1], question)
         IN  IF llm = "ok"
             THEN [outcome |-> "returned", error |-> "",
                   answer |-> Some([text |-> "completion", fallback |-> None]),
                   sources |-> Sources(relevant), encoded |-> TRUE, posted |-> TRUE]
             ELSE IF llm = "non200"
             THEN [outcome |-> "returned", error |-> "",
                   answer |-> Some([text |-> "Error with Groq API", fallback |-> None]),
                   sources |-> Sources(relevant), encoded |-> TRUE, posted |-> TRUE]
             ELSE IF relevant = <<>>
             THEN \* relevant_docs[0] in the except clause: IndexError
                  [outcome |-> "raised", error |-> "IndexError",
                   answer |-> None, sources |-> <<>>, encoded |-> TRUE, posted |-> TRUE]
             ELSE [outcome |-> "returned", error |-> "",
                   answer |-> Some([text |-> "Error generating answer",
                                    fallback |-> Some(relevant[1].document)]),
                   sources |-> Sources(relevant), encoded |-> TRUE, posted |-> TRUE]

\* hasattr(st.session_state.vector_db, 'collection_created'): the names a
\* chromadb client has; nothing in the repository sets another one on it.
ClientAttributes ==
    {"heartbeat", "list_collections", "create_collection", "get_collection",
     "get_or_create_collection", "delete_collection", "reset"}
\* (Mutant: the attribute test succeeds.)
HasAttrAny(name) == TRUE

HasAttr(name) == name \in ClientAttributes

\* ------------------------------------------------------------------ state
VARIABLES
    authenticated,      \* st.session_state.authenticated (and .service set)
    emails_df,          \* st.session_state.emails_df: None or Some(rows)
    last_email_date,    \* st.session_state.last_email_date: None or Some(t)
    vector_db_created,  \* st.session_state.vector_db_created
    scheduler_running,  \* st.session_state.scheduler_running
    collection,         \* "email_collection" in ./chroma_db: None or Some(entries)
    mailbox,            \* the provider holds messages 1..mailbox
    edited,             \* the message it shows with other content, 0: none
    threads,            \* scheduler_thread loops started and not yet ended
    jobs,               \* jobs registered with schedule
    models,             \* SentenceTransformer(...) constructions so far
    tick_pc,            \* where the scheduled fetch_new_emails stands
    tick_batch,         \* its local new_emails
    ret,                \* what the handler or step that ran last saw and did
    ingest,             \* the ingestion call it made, if any, and how it ended
    response            \* the result of ask_question_with_groq, if it asked

vars == <<authenticated, emails_df, last_email_date, vector_db_created,
          scheduler_running, collection, mailbox, edited, threads, jobs, models,
          tick_pc, tick_batch, ret, ingest, response>>

session == <<authenticated, emails_df, last_email_date, vector_db_created,
             scheduler_running>>
provider == <<mailbox, edited>>
tick == <<tick_pc, tick_batch>>
scheduler == <<threads, jobs>>

\* One more SentenceTransformer('all-MiniLM-L6-v2') has been constructed.
Constructed(n) == IF n < MaxModels THEN n + 1 ELSE MaxModels

\* The handler's own record: its name and, for one that merges a fetched batch,
\* the batch and the corpus and the cursor it found.
Ret(op) == [op |-> op, batch |-> <<>>, old_df |-> None, old_date |-> None]
Merged(op, batch) ==
    [op |-> op, batch |-> batch, old_df |-> emails_df, old_date |-> last_email_date]

\* The rows the ingestion call of the last handler was given: the corpus for
\* create_vector_database, the fetched batch for update_vector_database.
IngestRows == IF ingest[1].fn = "create" THEN emails_df[1] ELSE ret.batch

\* The call fn(rows) met `fault` and ended as `run`; again says that the handler
\* before this one made the same call, on the same rows, and that call met no
\* fault and returned True.
Ingestion(fn, rows, fault, run) ==
    Some([fn |-> fn, fault |-> fault, outcome |-> run.outcome,
          again |-> /\ ingest # None
                    /\ ingest[1].fn = fn
                    /\ IngestRows = rows
                    /\ ingest[1].fault = NoFault
                    /\ ingest[1].outcome = "True"])

NoIngestion == ingest' = None
NoResponse == response' = None

Init ==
    /\ authenticated = FALSE
    /\ emails_df = None
    /\ last_email_date = None
    /\ vector_db_created = FALSE
    /\ scheduler_running = FALSE
    /\ collection = None
    /\ mailbox = 0
    /\ edited = 0
    /\ threads = 0
    /\ jobs = 0
    /\ models = 0
    /\ tick_pc = "idle"
    /\ tick_batch = <<>>
    /\ ret = [op |-> "init", batch |-> <<>>, old_df |-> None, old_date |-> None]
    /\ ingest = None
    /\ response = None

\* --------------------------------------------------------------- the provider
\* A message arrives in the mailbox.
NewMail ==
    /\ mailbox < NumIds
    /\ mailbox' = mailbox + 1
    /\ ret' = Ret("new_mail")
    /\ NoIngestion /\ NoResponse
    /\ UNCHANGED <<session, collection, edited, tick, scheduler, models>>

\* From now on the provider shows one of the messages with other content.
MailEdited ==
    /\ edited = 0
    /\ \E id \in 1..mailbox : edited' = id
    /\ ret' = Ret("mail_edited")
    /\ NoIngestion /\ NoResponse
    /\ UNCHANGED <<session, collection, mailbox, tick, scheduler, models>>

\* ------------------------------------------------------- the sidebar (app.py)
\* "Authenticate with Gmail": authenticate_gmail returns a service or None.
Authenticate ==
    /\ ~authenticated
    /\ \E service \in BOOLEAN : authenticated' = service
    /\ ret' = Ret("authenticate")
    /\ NoIngestion /\ NoResponse
    /\ UNCHANGED <<emails_df, last_email_date, vector_db_created, scheduler_running,
                   collection, provider, tick, scheduler, models>>

\* "Fetch All Emails"
FetchAllEmails ==
    /\ authenticated /\ emails_df = None
    /\ LET emails == GetEmails(mailbox, edited, None)
       IN  /\ IF emails # <<>>
              THEN /\ emails_df' = Some(emails)
                   /\ last_email_date' = AdvanceCursor(last_email_date, emails)
              ELSE UNCHANGED <<emails_df, last_email_date>>
           /\ ret' = Merged("fetch_all", emails)
    /\ NoIngestion /\ NoResponse
    /\ UNCHANGED <<authenticated, vector_db_created, scheduler_running,
                   collection, provider, tick, scheduler, models>>

\* "Fetch New Emails"
FetchNewEmails ==
    /\ emails_df # None
    /\ LET new_emails == GetEmails(mailbox, edited, last_email_date)
       IN  \E fault \in {NoFault} \cup ChunkFaults(new_emails) :
             /\ ret' = Merged("fetch_new", new_emails)
             /\ IF new_emails # <<>>
                THEN /\ emails_df' = Some(MergeCorpus(emails_df[1], new_emails))
                     /\ IF vector_db_created
                        THEN LET run == UpdateVectorDatabase(collection, new_emails, fault)
                             IN  /\ collection' = run.collection
                                 /\ ingest' = Ingestion("update", new_emails, fault, run)
                                 /\ models' = Constructed(models)
                        ELSE /\ ingest' = None
                             /\ UNCHANGED <<collection, models>>
                     /\ last_email_date' = AdvanceCursor(last_email_date, new_emails)
                ELSE /\ ingest' = None
                     /\ UNCHANGED <<emails_df, collection, last_email_date, models>>
    /\ NoResponse
    /\ UNCHANGED <<authenticated, vector_db_created, scheduler_running,
                   provider, tick, scheduler>>

\* The "Enable auto-refresh" checkbox changed: start or stop the scheduler.
\* Enabling sets the flag, clears the schedule, registers the job and starts a
\* scheduler_thread; disabling only clears the flag.
ToggleAutoRefresh ==
    /\ emails_df # None
    /\ scheduler_running' = ~scheduler_running
    /\ IF ~scheduler_running
       THEN /\ threads < MaxThreads
            /\ jobs' = 0 + 1
            /\ threads' = threads + 1
       ELSE UNCHANGED scheduler
    /\ ret' = Ret("auto_refresh")
    /\ NoIngestion /\ NoResponse
    /\ UNCHANGED <<authenticated, emails_df, last_email_date, vector_db_created,
                   collection, provider, tick, models>>

\* "Create Vector Database" (create = TRUE) and "Recreate Vector Database".  An
\* exception leaving create_vector_database ends the script run: the flag is
\* not set.
BuildVectorDatabase(create) ==
    /\ emails_df # None
    /\ vector_db_created = ~create
    /\ \E fault \in {NoFault, CreateFault} \cup ChunkFaults(emails_df[1]) :
         LET run == CreateVectorDatabase(emails_df[1], fault)
         IN  /\ collection' = run.collection
             /\ ingest' = Ingestion("create", emails_df[1], fault, run)
             /\ vector_db_created' =
                  IF create THEN run.outcome = "True" ELSE vector_db_created
    /\ models' = Constructed(models)
    /\ ret' = Ret(IF create THEN "create_db" ELSE "recreate_db")
    /\ NoResponse
    /\ UNCHANGED <<authenticated, emails_df, last_email_date, scheduler_running,
                   provider, tick, scheduler>>

CreateDb == BuildVectorDatabase(TRUE)
RecreateDb == BuildVectorDatabase(FALSE)

\* "Ask" in the chat tab.
Ask ==
    /\ emails_df # None /\ vector_db_created
    /\ \E question \in Questions, llm \in LlmOutcomes :
         response' = Some([question |-> question, llm |-> llm,
                           result |-> AskQuestionWithGroq(collection, question, llm)])
    /\ models' = Constructed(models)
    /\ ret' = Ret("ask")
    /\ NoIngestion
    /\ UNCHANGED <<session, collection, provider, tick, scheduler>>

\* ------------------------- the scheduler (scheduler_thread, fetch_new_emails)
\* scheduler_thread: "while st.session_state.get('scheduler_running', False)".
\* A loop that finds the flag cleared ends; one that is inside the job is not
\* at that test.
ThreadExit ==
    /\ threads > (IF tick_pc = "idle" THEN 0 ELSE 1)
    /\ ~scheduler_running
    /\ threads' = threads - 1
    /\ ret' = Ret("thread_exit")
    /\ NoIngestion /\ NoResponse
    /\ UNCHANGED <<session, collection, provider, tick, jobs, models>>

\* (Mutant: the job without its first test.)
JobRunsAlways(running) == TRUE

\* fetch_new_emails: "if not st.session_state.get('scheduler_running', False): return"
JobRuns(running) == running

\* schedule.run_pending() of a live loop starts the job; the runs of the job are
\* taken one at a time.  The job returns at once when the scheduler has been
\* stopped or the session is not authenticated; otherwise it calls get_emails.
\* An exception of get_emails is caught neither by the job nor by run_pending
\* nor by scheduler_thread, whose loop it ends.  When the list is back the
\* handlers of the sidebar can have run.
TickFetch ==
    /\ tick_pc = "idle"
    /\ threads > 0
    /\ \E reachable \in BOOLEAN :
         IF ~JobRuns(scheduler_running)
         THEN /\ ret' = Ret("tick_stopped")
              /\ UNCHANGED <<tick, threads>>
         ELSE IF ~authenticated
         THEN /\ ret' = Ret("tick_skipped")
              /\ UNCHANGED <<tick, threads>>
         ELSE IF ~reachable
         THEN /\ ret' = Ret("tick_failed")
              /\ threads' = threads - 1
              /\ UNCHANGED tick
         ELSE LET new_emails == GetEmails(mailbox, edited, last_email_date)
              IN  /\ ret' = Ret("tick_fetch")
                  /\ tick_batch' = new_emails
                  /\ tick_pc' = IF new_emails # <<>> THEN "fetched" ELSE "idle"
                  /\ UNCHANGED threads
    /\ NoIngestion /\ NoResponse
    /\ UNCHANGED <<session, collection, provider, jobs, models>>

\* "if new_emails:": the job merges the batch into the corpus and comes to the
\* test that guards update_vector_database.
TickApply ==
    /\ tick_pc = "fetched"
    /\ emails_df' = IF emails_df # None
                    THEN Some(MergeCorpus(emails_df[1], tick_batch))
                    ELSE Some(tick_batch)
    /\ tick_pc' = IF HasAttr("collection_created") THEN "updating" ELSE "merged"
    /\ ret' = Merged("tick_merge", tick_batch)
    /\ NoIngestion /\ NoResponse
    /\ UNCHANGED <<authenticated, last_email_date, vector_db_created,
                   scheduler_running, collection, provider, tick_batch,
                   scheduler, models>>

\* The rest of the job: update_vector_database if the test let it in, then the
\* last email date.
TickUpdate ==
    /\ tick_pc \in {"merged", "updating"}
    /\ \E fault \in {NoFault} \cup ChunkFaults(tick_batch) :
         IF tick_pc = "updating"
         THEN LET run == UpdateVectorDatabase(collection, tick_batch, fault)
              IN  /\ collection' = run.collection
                  /\ ingest' = Ingestion("update", tick_batch, fault, run)
                  /\ models' = Constructed(models)
         ELSE /\ ingest' = None
              /\ UNCHANGED <<collection, models>>
    /\ last_email_date' = AdvanceCursor(last_email_date, tick_batch)
    /\ tick_pc' = "idle"
    /\ tick_batch' = <<>>
    /\ ret' = Merged("tick", tick_batch)
    /\ NoResponse
    /\ UNCHANGED <<authenticated, emails_df, vector_db_created, scheduler_running,
                   provider, scheduler>>

Next ==
    \/ NewMail
    \/ MailEdited
    \/ Authenticate
    \/ FetchAllEmails
    \/ FetchNewEmails
    \/ ToggleAutoRefresh
    \/ CreateDb
    \/ RecreateDb
    \/ Ask
    \/ ThreadExit
    \/ TickFetch
    \/ TickApply
    \/ TickUpdate

Spec == Init /\ [][Next]_vars

\* ================================================================= claims
Range(seq) == { seq[i] : i \in 1..Len(seq) }

\* The ingestion call of the last handler ended by returning True.
Ingested == ingest # None /\ ingest[1].outcome = "True"

\* C1 (as claimed): a batch write that carries a record whose id is already in
\* the index overwrites the stored entry: after a write that returned True, the
\* entry of every such id is the document and metadata built from the record
\* just written.
C1_WriteOverwritesExistingId ==
    [][ (Ingested' /\ collection # None /\ collection' # None)
        => \A d \in Range(BuildDocuments(IngestRows')) :
              d.id \in IdsOf(collection[1]) => d \in Range(collection'[1]) ]_vars

\* The index holds at most one entry per id.
NoDuplicateIds ==
    collection # None =>
        \A i, j \in 1..Len(collection[1]) :
            collection[1][i].id = collection[1][j].id => i = j

\* C2: ingestion is idempotent.  When a handler makes the ingestion call its
\* predecessor made, on the same rows, the predecessor's call having returned
\* True and neither call meeting an embedding or storage fault, the second call
\* returns True too and leaves the index exactly as the first left it; and the
\* index never holds two entries with the same id.
C2_IngestionIdempotent ==
    /\ []NoDuplicateIds
    /\ [][ ( /\ Ingested
             /\ ingest[1].fault = NoFault
             /\ ingest' # None
             /\ ingest'[1].fn = ingest[1].fn
             /\ ingest'[1].fault = NoFault
             /\ IngestRows' = IngestRows )
           => (ingest'[1].outcome = "True" /\ collection' = collection) ]_vars

\* C2 witness: update_vector_database has just run a second time on the same
\* batch of more than one record, and returned True.
C2_Witness ==
    /\ Ingested
    /\ ingest[1].again
    /\ ingest[1].fn = "update"
    /\ Len(ret.batch) > 1
    /\ IdsOf(ret.batch) \subseteq IdsOf(collection[1])

\* The handler that ran last merged a fetched batch into a held corpus.
MergedBatch ==
    ret.op \in {"fetch_new", "tick_merge"} /\ ret.batch # <<>> /\ ret.old_df # None

C4_ChunkFailureReturnsFalse ==
    [][ ( /\ ingest' # None
          /\ ingest'[1].fault[1] = "chunk"
          /\ ingest'[1].fn = "update" => collection # None )
        => LET docs == BuildDocuments(IngestRows')
               done == (ingest'[1].fault[2] - 1) * batch_size
               before == IF ingest'[1].fn = "create" THEN {} ELSE IdsOf(collection[1])
           IN  /\ ingest'[1].outcome = "False"
               /\ collection' # None
               /\ \A i \in 1..Len(docs) :
                     IF i <= done
                     THEN docs[i].id \in IdsOf(collection'[1])
                     ELSE docs[i].id \in IdsOf(collection'[1]) => docs[i].id \in before
       ]_vars

\* The last handler asked a question, and this is what the query returned.
Asked == response # None /\ collection # None
Relevant == Query(collection[1], response[1].question)
Result == response[1].result

\* C5 (as claimed): whatever way the LLM service fails (non-200 status, network
\* error, malformed body), the call returns, and its answer both states that an
\* error occurred and includes the top-ranked retrieved document.
C5_LlmFailureFallsBack ==
    (Asked /\ response[1].llm # "ok" /\ Relevant # <<>>)
    => /\ Result.outcome = "returned"
       /\ Result.answer[1].text \in {"Error with Groq API", "Error generating answer"}
       /\ Result.answer[1].fallback = Some(Relevant[1].document)

\* C6 (as claimed): when retrieval succeeded the call returns, whatever the LLM
\* outcome, one source per retrieved document, in ranking order, each with the
\* document's metadata and the first 200 characters of its text followed by an
\* ellipsis.
C6_SourcesWhateverTheLlm ==
    Asked
    => /\ Result.outcome = "returned"
       /\ Len(Result.sources) = Len(Relevant)
       /\ \A i \in 1..Len(Relevant) :
             /\ Result.sources[i].metadata = Relevant[i].metadata
             /\ LET text == Relevant[i].document
                    n == IF Len(text) < 200 THEN Len(text) ELSE 200
                    excerpt == Result.sources[i].excerpt
                IN  /\ Len(excerpt) = n + 3
                    /\ \A c \in 1..n : excerpt[c] = text[c]
                    /\ \A c \in 1..3 : excerpt[n + c] = "."

\* C7 (as claimed): with no collection, a question and an incremental update
\* each end in an outcome of their own.  The question is left by the exception
\* of get_collection before the question is embedded or the LLM is called; the
\* update ends neither as a success nor with the value False it returns for an
\* empty batch and for any embedding or storage failure.
C7_NotInitializedIsDistinct ==
    /\ (response # None /\ collection = None)
       => /\ Result.outcome = "raised" /\ Result.error = "get_collection"
          /\ ~Result.encoded /\ ~Result.posted
    /\ (ingest # None /\ ingest[1].fn = "update" /\ collection = None)
       => ingest[1].outcome \notin {"True", "False"}

\* C8 (as claimed): a question asked of an existing collection that holds no
\* document returns {answer, sources} for every LLM outcome.
C8_EmptyCollectionNeverCrashes ==
    (Asked /\ collection[1] = <<>>)
    => /\ Result.outcome = "returned"
       /\ Result.answer # None

\* C9 (as claimed): while the scheduler is running, the session authenticated
\* and the index built, a tick that fetched a non-empty batch has run the
\* incremental update on it, and every fetched id is in the index when the tick
\* has advanced the cursor.
C9_TickUpdatesIndex ==
    ( /\ ret.op = "tick" /\ ret.batch # <<>>
      /\ scheduler_running /\ authenticated
      /\ vector_db_created /\ collection # None )
    => /\ ingest # None
       /\ IdsOf(ret.batch) \subseteq IdsOf(collection[1])

C11_CursorOnlyAfterIngestion ==
    (ret.op \in {"fetch_new", "tick"} /\ ret.batch # <<>> /\ ~Ingested)
    => last_email_date = ret.old_date

\* C12 (as claimed): a tick that finds the session unauthenticated, or whose
\* fetch raises, leaves corpus, index and cursor as they are and leaves the
\* scheduler loop that ran it alive.
C12_FetchFailureKeepsLoop ==
    [][ ret'.op \in {"tick_skipped", "tick_failed"}
        => /\ threads' = threads
           /\ UNCHANGED <<emails_df, collection, last_email_date>> ]_vars

\* C13 (as claimed): with the cursor at T, an incremental fetch ("Fetch New
\* Emails" or the tick's) returns no record dated T or earlier.
C13_FetchStrictlyAfterCursor ==
    /\ (ret.op = "fetch_new" /\ ret.old_date # None)
       => \A r \in Range(ret.batch) : r.date # NaT => r.date > ret.old_date[1]
    /\ (ret.op = "tick_fetch" /\ last_email_date # None)
       => \A r \in Range(tick_batch) : r.date # NaT => r.date > last_email_date[1]

\* The handler of the sidebar that ran last wrote to the index (collection
\* delete, create or add).
UiWrote ==
    ret.op \in {"fetch_new", "create_db", "recreate_db"} /\ ingest # None

\* C14: no handler of the sidebar writes to the index ("Fetch New Emails"
\* update, create or recreate of the collection) while the scheduled job is
\* inside update_vector_database.
C14_IndexWritesExclusive == ~(UiWrote /\ tick_pc = "updating")

\* C14 witness: a handler of the sidebar wrote to the built index while the
\* scheduled job stood between its merge and its last-email-date update, where
\* its call of update_vector_database is.
C14_Witness ==
    /\ UiWrote
    /\ tick_pc = "merged"
    /\ vector_db_created /\ collection # None

\* C15: after a create_vector_database that returned True, whether or not the
\* collection existed before, the collection holds one entry per record of the
\* corpus and nothing else, each entry with the document of the corpus record.
C15_FullBuildIndexesCorpus ==
    (ingest # None /\ ingest[1].fn = "create" /\ ingest[1].outcome = "True")
    => /\ collection # None
       /\ Len(collection[1]) = Len(emails_df[1])
       /\ IdsOf(collection[1]) = IdsOf(emails_df[1])
       /\ \A e \in Range(collection[1]) :
             \E r \in Range(emails_df[1]) :
                /\ r.id = e.id
                /\ e.document = SubjectPrefix \o r.subject \o BodyPrefix \o r.body

\* C15 witness: "Recreate Vector Database" succeeded on a corpus of more than
\* one chunk that holds a record fetched again with other content.
C15_Witness ==
    /\ ret.op = "recreate_db"
    /\ Ingested
    /\ Len(collection[1]) > batch_size
    /\ \E e \in Range(collection[1]) : e.metadata.date = <<>>

\* C16 (as claimed): an ingestion run that reached its batch loop reports, after
\* every chunk it committed, the fraction committed chunks / total chunks; the
\* fractions never decrease, lie in 0..1, and 1 is reported only when the last
\* chunk is committed.
C16_ProgressAfterEveryChunk ==
    (ingest # None /\ collection # None /\ ingest[1].fault # CreateFault)
    => LET docs == BuildDocuments(IngestRows)
           total == TotalBatches(docs)
           done == IF ingest[1].fault[1] = "chunk" THEN ingest[1].fault[2] - 1 ELSE total
           reports == Progress(ingest[1].fn, IngestRows, ingest[1].fault)
       IN  /\ \A c \in 1..done :
                \E i \in 1..Len(reports) :
                   reports[i].batch_num = c /\ reports[i].committed = c
           /\ \A i \in 1..Len(reports) :
                /\ reports[i].total_batches = total
                /\ reports[i].batch_num = reports[i].committed
                /\ 0 <= reports[i].batch_num /\ reports[i].batch_num <= total
                /\ reports[i].batch_num = total => reports[i].committed = total
                /\ i > 1 => reports[i - 1].batch_num <= reports[i].batch_num

\* A step that is the start of the scheduled job.
TickBegins == ret'.op \in {"tick_stopped", "tick_skipped", "tick_failed", "tick_fetch"}

C18_ModelConstructedOnce == models <= 1

\* C19 (as claimed): whenever vector_db_created is true the collection exists.
C19_FlagImpliesCollection == vector_db_created => collection # None

\* C20 (as claimed): at most one scheduler_thread loop is live and at most one
\* job is registered.
C20_OneSchedulerThread == threads <= 1 /\ jobs <= 1

\* C21 (as claimed): the cursor never moves backwards: once set, every step
\* leaves it set, at a value greater than or equal to the one it had.
C21_CursorNeverMovesBack ==
    [][ last_email_date # None
        => /\ last_email_date' # None
           /\ last_email_date'[1] >= last_email_date[1] ]_vars

====
